---- MODULE Spec2Model ----
(***************************************************************************)
(* letter shell 2.0.0 (src/shell.c): the line editor, the history ring,    *)
(* the completion matcher, the ANSI escape recogniser and the dispatcher   *)
(* of one SHELL_TypeDef instance, driven one byte at a time by             *)
(* shellHandler.                                                           *)
(*                                                                         *)
(* A byte is a string: a printable byte is its character ("a", " ", "["),  *)
(* a control byte its mnemonic ("CR", "TAB", "ESC") and the zero byte is   *)
(* NUL.  A C string is the sequence of its bytes without the terminator.   *)
(* char arrays are functions over 0..size-1.  The build modelled is        *)
(* SHELL_AUTO_PRASE == 0, SHELL_LONG_HELP == 1, SHELL_DISPLAY_RETURN == 0. *)
(***************************************************************************)
EXTENDS Integers, Sequences, FiniteSets, TLC

VARIABLES
    shell,      \* the SHELL_TypeDef instance, with the output of the current call
    capacity,   \* SHELL_COMMAND_MAX_LENGTH of the build under test
    terminal,   \* the attached transport: the bytes it can deliver, its tick source
    pending,    \* bytes the transport has queued and not yet delivered
    lastKey,    \* what the last shellHandler call was given and did
    undo,       \* the line before the last call, when that call inserted a byte
    trip        \* bookkeeping of a run of Up arrows followed by Down arrows

vars == <<shell, capacity, terminal, pending, lastKey, undo, trip>>

----------------------------------------------------------------------------
(* Bounds of the model *)

\* SHELL_COMMAND_MAX_LENGTH of the builds driven by a free keyboard
SmallCapacity == 4

\* SHELL_HISTORY_MAX_NUMBER
SHELL_HISTORY_MAX_NUMBER == 2

\* longest run of Up arrows the round-trip bookkeeping follows
MaxTrip == 3

\* longest line of the scripted tokenizer runs
MaxTokenLine == 4

\* most lines a scripted history run accepts beyond SHELL_HISTORY_MAX_NUMBER
MaxExtraLines == 1

\* SHELL_PARAMETER_MAX_NUMBER: the size of the param array
SHELL_PARAMETER_MAX_NUMBER == 3

----------------------------------------------------------------------------
(* Bytes and key codes *)

NUL == "NUL"
SHELL_KEY_LF == "LF"
SHELL_KEY_CR == "CR"
SHELL_KEY_TAB == "TAB"
SHELL_KEY_BACKSPACE == "BS"
SHELL_KEY_DELETE == "DEL"
SHELL_KEY_ESC == "ESC"

SHELL_IN_NORMAL == "SHELL_IN_NORMAL"
SHELL_ANSI_ESC == "SHELL_ANSI_ESC"
SHELL_ANSI_CSI == "SHELL_ANSI_CSI"

Min(a, b) == IF a < b THEN a ELSE b

----------------------------------------------------------------------------
(* C strings *)

\* the C string that starts at arr[from]: the bytes up to the first NUL
RECURSIVE CStr(_, _)
CStr(arr, from) ==
    IF from \notin DOMAIN arr \/ arr[from] = NUL
    THEN <<>>
    ELSE <<arr[from]>> \o CStr(arr, from + 1)

\* the first n bytes of arr, as a sequence
Bytes(arr, n) == [i \in 1..n |-> arr[i - 1]]

\* shellStringCopy(dest, src) for a char array dest: the bytes, then a NUL
shellStringCopy(dest, src) ==
    [i \in DOMAIN dest |->
        IF i < Len(src) THEN src[i + 1]
        ELSE IF i = Len(src) THEN NUL
        ELSE dest[i]]

\* shellStringCompare(dest, src): the number of leading bytes that agree
RECURSIVE shellStringCompare(_, _)
shellStringCompare(dest, src) ==
    IF dest = <<>> \/ src = <<>> \/ Head(dest) # Head(src)
    THEN 0
    ELSE 1 + shellStringCompare(Tail(dest), Tail(src))

----------------------------------------------------------------------------
(* Output: every shellDisplay / shellDisplayByte call of the current       *)
(* shellHandler call, in order, as <<kind, argument>>.                     *)

shellDisplay(sh, what) == [sh EXCEPT !.out = Append(@, what)]

\* a call through a function pointer, recorded in calls in the order made
Call(sh, what) == [sh EXCEPT !.calls = Append(@, what)]

shellDisplayByte(sh, b) == shellDisplay(sh, <<"byte", b>>)

RECURSIVE shellDisplayBytes(_, _)
shellDisplayBytes(sh, bs) ==
    IF bs = <<>> THEN sh
    ELSE shellDisplayBytes(shellDisplayByte(sh, Head(bs)), Tail(bs))

Repeat(b, n) == [i \in 1..n |-> b]

Prompt == <<"text", "PROMPT">>
CRLF == <<"text", "CRLF">>
TEXT_CMD_NONE == <<"text", "TEXT_CMD_NONE">>
TEXT_CMD_TOO_LONG == <<"text", "TEXT_CMD_TOO_LONG">>
TEXT_FUN_LIST == <<"text", "TEXT_FUN_LIST">>

\* shellDisplay(shell, shell->buffer)
shellDisplayBuffer(sh) == shellDisplay(sh, <<"str", CStr(sh.buffer, 0)>>)

\* one row of the command list: name, padding, "--", description, line end
shellDisplayItem(sh, index) == shellDisplay(sh, <<"item", index>>)

\* shellDelete: length times backspace, space, backspace
shellDelete(sh, n) == [sh EXCEPT !.out = @ \o Repeat(<<"text", "\\b \\b">>, n)]

shellClearLine(sh) ==
    shellDelete(shellDisplayBytes(sh, Repeat(" ", sh.length - sh.cursor)), sh.length)

----------------------------------------------------------------------------
(* History ring.  A slot of history is kept as the C string it holds; every *)
(* read and write of a slot records the slot index it used in histIdx.      *)

Touch(sh, i) == [sh EXCEPT !.histIdx = @ \cup {i}]

InHistory(i) == i \in 0..(SHELL_HISTORY_MAX_NUMBER - 1)

\* strcmp(shell->history[shell->historyFlag - 1], shell->buffer) == 0.
\* With historyFlag == 0 the index is -1: the bytes compared lie before the
\* array, and the comparison can come out either way (garbage).
HistoryCompareIndex(sh) == sh.historyFlag - 1

shellHistoryAdd(sh, garbage) ==
    LET s0 == Touch([sh EXCEPT !.historyOffset = 0], HistoryCompareIndex(sh))
        line == CStr(sh.buffer, 0)
        same == IF InHistory(HistoryCompareIndex(sh))
                THEN sh.history[HistoryCompareIndex(sh)] = line
                ELSE garbage
        s1 == Touch([s0 EXCEPT !.history[sh.historyFlag] = line], sh.historyFlag)
        s2 == [s1 EXCEPT !.historyFlag = IF Len(line) # 0 THEN @ + 1 ELSE @]
        s3 == [s2 EXCEPT !.historyCount =
                    IF @ + 1 > SHELL_HISTORY_MAX_NUMBER
                    THEN SHELL_HISTORY_MAX_NUMBER ELSE @ + 1]
        s4 == [s3 EXCEPT !.historyFlag =
                    IF @ >= SHELL_HISTORY_MAX_NUMBER THEN 0 ELSE @]
    IN  IF same THEN s0 ELSE s4

\* a floor that lets a recall go round the whole ring whatever was stored
HistoryFloorWholeRing(sh) == -SHELL_HISTORY_MAX_NUMBER

\* -((historyCount > historyFlag) ? historyCount : historyFlag)
HistoryFloor(sh) ==
    -(IF sh.historyCount > sh.historyFlag THEN sh.historyCount ELSE sh.historyFlag)

\* (historyFlag + SHELL_HISTORY_MAX_NUMBER + historyOffset) % SHELL_HISTORY_MAX_NUMBER
HistoryRecallIndex(sh) ==
    (sh.historyFlag + SHELL_HISTORY_MAX_NUMBER + sh.historyOffset)
        % SHELL_HISTORY_MAX_NUMBER

\* shellHistoryShow that leaves the line in place when the offset is back at 0
shellHistoryShowKeep(sh) ==
    LET s0 == shellClearLine(sh)
        slot == sh.history[HistoryRecallIndex(sh)]
        s1 == Touch([s0 EXCEPT !.buffer = shellStringCopy(@, slot),
                               !.length = Len(slot)], HistoryRecallIndex(sh))
    IN  IF sh.historyOffset = 0
        THEN s0
        ELSE IF Len(slot) = 0
             THEN s1
             ELSE shellDisplayBuffer([s1 EXCEPT !.cursor = s1.length])

\* the redraw half of shellHistory, after historyOffset has moved
shellHistoryShow(sh) ==
    LET s0 == shellClearLine(sh)
        slot == sh.history[HistoryRecallIndex(sh)]
        s1 == Touch([s0 EXCEPT !.buffer = shellStringCopy(@, slot),
                               !.length = Len(slot)], HistoryRecallIndex(sh))
    IN  IF sh.historyOffset = 0
        THEN [s0 EXCEPT !.cursor = 0, !.length = 0]
        ELSE IF Len(slot) = 0
             THEN s1
             ELSE shellDisplayBuffer([s1 EXCEPT !.cursor = s1.length])

\* dir 0 is older (Up), dir 1 is newer (Down)
shellHistory(sh, dir) ==
    IF dir = 0
    THEN shellHistoryShow([sh EXCEPT !.historyOffset =
                IF @ <= HistoryFloor(sh) THEN HistoryFloor(sh) ELSE @ - 1])
    ELSE IF dir = 1
    THEN IF sh.historyOffset + 1 > 0
         THEN [sh EXCEPT !.historyOffset = 0]
         ELSE shellHistoryShow([sh EXCEPT !.historyOffset = @ + 1])
    ELSE sh

----------------------------------------------------------------------------
(* Line editor *)

\* buffer[from .. from+n-1] moved one byte to the right, highest byte first
ShiftRight(buf, from, n) ==
    [i \in DOMAIN buf |-> IF i > from /\ i <= from + n THEN buf[i - 1] ELSE buf[i]]

\* buffer[from .. from+n-1] moved one byte to the left, lowest byte first
ShiftLeft(buf, from, n) ==
    [i \in DOMAIN buf |-> IF i >= from - 1 /\ i < from - 1 + n THEN buf[i + 1] ELSE buf[i]]

shellNormalAppend(sh, data) ==
    shellDisplayByte([sh EXCEPT !.buffer[sh.length] = data,
                                !.length = @ + 1,
                                !.cursor = @ + 1], data)

\* shellNormalInsert without the terminator written after the shifted tail
shellNormalInsertUnterminated(sh, data) ==
    LET s0 == [sh EXCEPT
                !.buffer = [ShiftRight(@, sh.cursor, sh.length - sh.cursor)
                                EXCEPT ![sh.cursor] = data],
                !.cursor = @ + 1,
                !.length = @ + 1]
    IN  shellDisplayBytes(s0, Repeat("\\b", s0.length - s0.cursor))

shellNormalInsert(sh, data) ==
    LET s0 == [sh EXCEPT
                !.buffer = [ShiftRight(@, sh.cursor, sh.length - sh.cursor)
                                EXCEPT ![sh.cursor] = data, ![sh.length + 1] = NUL],
                !.cursor = @ + 1,
                !.length = @ + 1]
        s1 == shellDisplayBytes(s0,
                [i \in 1..(s0.length - s0.cursor + 1) |-> s0.buffer[s0.cursor - 2 + i]])
    IN  shellDisplayBytes(s1, Repeat("\\b", s0.length - s0.cursor))

\* shellNormalTooLong that leaves the cursor where it was
shellNormalTooLongKeepsCursor(sh) ==
    shellDisplayBuffer(shellDisplay(shellDisplay(sh, TEXT_CMD_TOO_LONG), Prompt))

shellNormalTooLong(sh) ==
    [shellDisplayBuffer(shellDisplay(shellDisplay(sh, TEXT_CMD_TOO_LONG), Prompt))
        EXCEPT !.cursor = sh.length]

\* shellNormal with the capacity test off by one
shellNormalOffByOne(sh, data) ==
    IF data = NUL THEN sh
    ELSE IF sh.length < capacity
    THEN IF sh.length = sh.cursor
         THEN shellNormalAppend(sh, data)
         ELSE shellNormalInsert(sh, data)
    ELSE shellNormalTooLong(sh)

shellNormal(sh, data) ==
    IF data = NUL THEN sh
    ELSE IF sh.length < capacity - 1
    THEN IF sh.length = sh.cursor
         THEN shellNormalAppend(sh, data)
         ELSE shellNormalInsert(sh, data)
    ELSE shellNormalTooLong(sh)

shellBackspaceEnd(sh) ==
    shellDelete([sh EXCEPT !.length = @ - 1,
                           !.cursor = @ - 1,
                           !.buffer[sh.length - 1] = NUL], 1)

\* shellBackspaceMiddle that shifts the tail from one byte too far right
shellBackspaceMiddleShiftLate(sh) ==
    [sh EXCEPT
        !.buffer = [ShiftLeft(@, sh.cursor + 1, sh.length - sh.cursor - 1)
                        EXCEPT ![sh.length - 1] = NUL],
        !.length = @ - 1,
        !.cursor = @ - 1]

shellBackspaceMiddle(sh) ==
    LET s0 == [sh EXCEPT
                !.buffer = [ShiftLeft(@, sh.cursor, sh.length - sh.cursor)
                                EXCEPT ![sh.length - 1] = NUL],
                !.length = @ - 1,
                !.cursor = @ - 1]
        s1 == shellDisplayByte(s0, "\\b")
        s2 == shellDisplayBytes(s1,
                [i \in 1..(s0.length - s0.cursor) |-> s0.buffer[s0.cursor - 1 + i]])
        s3 == shellDisplayByte(s2, " ")
    IN  shellDisplayBytes(s3, Repeat("\\b", s0.length - s0.cursor + 1))

shellBackspace(sh) ==
    IF sh.length = 0 THEN sh
    ELSE IF sh.cursor = sh.length THEN shellBackspaceEnd(sh)
    ELSE IF sh.cursor > 0 THEN shellBackspaceMiddle(sh)
    ELSE sh

----------------------------------------------------------------------------
(* Command table: shell->commandBase is a sequence of SHELL_CommandTypeDef, *)
(* indexed from 0 as in the source (entry i is commandBase[i + 1]).         *)

CommandName(sh, i) == sh.commandBase[i + 1].name

commandNumber(sh) == Len(sh.commandBase)

\* the highest index in from..commandNumber-1 whose name is s, or -1
RECURSIVE FindCommandLast(_, _, _)
FindCommandLast(sh, s, from) ==
    IF from >= Len(sh.commandBase) THEN -1
    ELSE IF FindCommandLast(sh, s, from + 1) >= 0 THEN FindCommandLast(sh, s, from + 1)
    ELSE IF sh.commandBase[from + 1].name = s THEN from
    ELSE -1

\* the lowest index in from..commandNumber-1 whose name is s, or -1
RECURSIVE FindCommand(_, _, _)
FindCommand(sh, s, from) ==
    IF from >= commandNumber(sh) THEN -1
    ELSE IF CommandName(sh, from) = s THEN from
    ELSE FindCommand(sh, s, from + 1)

RECURSIVE shellDisplayItems(_, _)
shellDisplayItems(sh, from) ==
    IF from >= commandNumber(sh) THEN sh
    ELSE shellDisplayItems(shellDisplayItem(sh, from), from + 1)

\* the C string argv[k] points at (param holds offsets into buffer)
Arg(sh, k) == CStr(sh.buffer, sh.param[k + 1])

\* shellHelp(argc, argv) on the shell that is active
shellHelp(sh, argc) ==
    IF argc = 1
    THEN shellDisplayItems(shellDisplay(sh, TEXT_FUN_LIST), 0)
    ELSE IF argc = 2
    THEN IF FindCommand(sh, Arg(sh, 1), 0) >= 0
         THEN shellDisplay(sh, <<"help", FindCommand(sh, Arg(sh, 1), 0)>>)
         ELSE shellDisplay(sh, TEXT_CMD_NONE)
    ELSE sh

----------------------------------------------------------------------------
(* Dispatcher: shellEnter *)

IsDelimiter(c) == c = " " \/ c = SHELL_KEY_TAB \/ c = ","

\* a quote byte that does not open a quoted stretch
NeverQuoted(quotes) == 0

\* quotes = quotes ? 0 : 1
ToggleQuotes(quotes) == IF quotes # 0 THEN 0 ELSE 1

\* a backslash that takes no byte with it
AfterTokenByteNoEscape(c, i) == i + 1

\* the index the loop goes on with after a token byte at i: a backslash takes
\* the next byte with it
AfterTokenByte(c, i) == IF c = "\\" THEN i + 2 ELSE i + 1

\* the tokenizing loop of shellEnter from index i on: quotes and record are
\* its flags, params the token starts recorded so far
RECURSIVE shellEnterParse(_, _, _, _, _, _)
shellEnterParse(buf, len, i, quotes, record, params) ==
    IF i >= len
    THEN [buffer |-> buf, param |-> params]
    ELSE IF (quotes # 0 \/ ~IsDelimiter(buf[i])) /\ buf[i] # NUL
    THEN IF buf[i] = "\""
         THEN shellEnterParse([buf EXCEPT ![i] = NUL], len, i + 1,
                              ToggleQuotes(quotes), record, params)
         ELSE shellEnterParse(buf, len, AfterTokenByte(buf[i], i), quotes, 0,
                              IF record = 1 THEN Append(params, i) ELSE params)
    ELSE shellEnterParse([buf EXCEPT ![i] = NUL], len, i + 1, quotes, 1, params)

\* param[0..n-1] overwritten by the new token starts, the rest left as it was.
\* The loop stores without looking at the size of param: param here is the
\* memory from &param[0] on, and an entry past SHELL_PARAMETER_MAX_NUMBER is a
\* store outside the array.
StoreParam(old, new) ==
    new \o SubSeq(old, Len(new) + 1, Len(old))

\* shellEnterRun that leaves isActive set after a command of the table ran
shellEnterRunStaysActive(sh, paramCount) ==
    LET found == FindCommand(sh, Arg(sh, 0), 0)
        active == [sh EXCEPT !.isActive = 1]
        helped == [shellHelp(Call(active, <<"help", paramCount, active.isActive>>),
                             paramCount)
                        EXCEPT !.isActive = 0]
        ran == shellDisplay(Call(active, <<"cmd", found, active.isActive>>),
                            <<"run", found>>)
    IN  IF Arg(sh, 0) = <<"h", "e", "l", "p">>
        THEN shellDisplay(helped, Prompt)
        ELSE IF found >= 0
        THEN shellDisplay(ran, Prompt)
        ELSE shellDisplay(shellDisplay(sh, TEXT_CMD_NONE), Prompt)

\* the part of shellEnter after the tokens are known and "\r\n" is printed
shellEnterRun(sh, paramCount) ==
    LET found == FindCommand(sh, Arg(sh, 0), 0)
        active == [sh EXCEPT !.isActive = 1]
        helped == [shellHelp(Call(active, <<"help", paramCount, active.isActive>>),
                             paramCount)
                        EXCEPT !.isActive = 0]
        ran == [shellDisplay(Call(active, <<"cmd", found, active.isActive>>),
                             <<"run", found>>)
                        EXCEPT !.isActive = 0]
    IN  IF Arg(sh, 0) = <<"h", "e", "l", "p">>
        THEN shellDisplay(helped, Prompt)
        ELSE IF found >= 0
        THEN shellDisplay(ran, Prompt)
        ELSE shellDisplay(shellDisplay(sh, TEXT_CMD_NONE), Prompt)

\* shellEnter that prints nothing for an empty line
shellEnterSilentOnEmpty(sh, garbage) ==
    IF sh.length = 0
    THEN sh
    ELSE LET s0 == [sh EXCEPT !.buffer[sh.length] = NUL, !.length = @ + 1]
             s1 == shellHistoryAdd(s0, garbage)
             p == shellEnterParse(s1.buffer, s1.length, 0, 0, 1, <<>>)
             s2 == [s1 EXCEPT !.buffer = p.buffer,
                              !.param = StoreParam(@, p.param),
                              !.paramCount = Len(p.param),
                              !.length = 0,
                              !.cursor = 0]
         IN  IF Len(p.param) = 0
             THEN shellDisplay(s2, Prompt)
             ELSE shellEnterRun(shellDisplay(s2, CRLF), Len(p.param))

shellEnter(sh, garbage) ==
    IF sh.length = 0
    THEN shellDisplay(sh, Prompt)
    ELSE LET s0 == [sh EXCEPT !.buffer[sh.length] = NUL, !.length = @ + 1]
             s1 == shellHistoryAdd(s0, garbage)
             p == shellEnterParse(s1.buffer, s1.length, 0, 0, 1, <<>>)
             s2 == [s1 EXCEPT !.buffer = p.buffer,
                              !.param = StoreParam(@, p.param),
                              !.paramCount = Len(p.param),
                              !.length = 0,
                              !.cursor = 0]
         IN  IF Len(p.param) = 0
             THEN shellDisplay(s2, Prompt)
             ELSE shellEnterRun(shellDisplay(s2, CRLF), Len(p.param))

----------------------------------------------------------------------------
(* Completion: shellTab *)

\* the scan of the command table from entry i on; st holds the locals
\* matchNum, lastMatchIndex and maxMatch, and sh collects the rows printed
RECURSIVE shellTabScan(_, _, _)
shellTabScan(sh, st, i) ==
    IF i >= commandNumber(sh)
    THEN [sh |-> sh, st |-> st]
    ELSE IF shellStringCompare(CStr(sh.buffer, 0), CommandName(sh, i)) = sh.length
    THEN LET s0 == IF st.matchNum = 1 THEN shellDisplay(sh, CRLF) ELSE sh
             s1 == shellDisplayItem(s0, st.lastMatchIndex)
             len == shellStringCompare(CommandName(sh, st.lastMatchIndex),
                                       CommandName(sh, i))
         IN  IF st.matchNum # 0
             THEN shellTabScan(s1,
                    [matchNum |-> st.matchNum + 1, lastMatchIndex |-> i,
                     maxMatch |-> IF st.maxMatch > len THEN len ELSE st.maxMatch],
                    i + 1)
             ELSE shellTabScan(sh,
                    [st EXCEPT !.matchNum = @ + 1, !.lastMatchIndex = i], i + 1)
    ELSE shellTabScan(sh, st, i + 1)

\* shellTabFill that leaves the last matched name whole
shellTabFillWhole(sh, st) ==
    LET s0 == IF st.matchNum = 1 THEN shellClearLine(sh) ELSE sh
        name == CommandName(sh, st.lastMatchIndex)
        s1 == [s0 EXCEPT !.buffer = shellStringCopy(@, name), !.length = Len(name)]
        s2 == IF st.matchNum > 1
              THEN shellDisplay(shellDisplayItem(s1, st.lastMatchIndex), Prompt)
              ELSE s1
        s3 == [s2 EXCEPT !.buffer[s2.length] = NUL, !.cursor = s2.length]
    IN  shellDisplayBuffer(s3)

\* shellTabFill that leaves the cursor where it was
shellTabFillKeepsCursor(sh, st) ==
    LET s0 == IF st.matchNum = 1 THEN shellClearLine(sh) ELSE sh
        name == CommandName(sh, st.lastMatchIndex)
        s1 == [s0 EXCEPT !.buffer = shellStringCopy(@, name), !.length = Len(name)]
        s2 == IF st.matchNum > 1
              THEN [shellDisplay(shellDisplayItem(s1, st.lastMatchIndex), Prompt)
                        EXCEPT !.length = st.maxMatch]
              ELSE s1
        s3 == [s2 EXCEPT !.buffer[s2.length] = NUL,
                         !.cursor = Min(sh.cursor, s2.length)]
    IN  shellDisplayBuffer(s3)

\* the branch of shellTab for a non-empty buffer, once the table is scanned
shellTabFill(sh, st) ==
    LET s0 == IF st.matchNum = 1 THEN shellClearLine(sh) ELSE sh
        name == CommandName(sh, st.lastMatchIndex)
        s1 == [s0 EXCEPT !.buffer = shellStringCopy(@, name), !.length = Len(name)]
        s2 == IF st.matchNum > 1
              THEN [shellDisplay(shellDisplayItem(s1, st.lastMatchIndex), Prompt)
                        EXCEPT !.length = st.maxMatch]
              ELSE s1
        s3 == [s2 EXCEPT !.buffer[s2.length] = NUL, !.cursor = s2.length]
    IN  shellDisplayBuffer(s3)

\* buffer[0..length] moved five bytes to the right, "help" and a space put in front
shellTabHelpPrefix(sh) ==
    LET s0 == shellClearLine(sh)
        moved == [i \in DOMAIN sh.buffer |->
                    IF i >= 5 /\ i <= sh.length + 5 THEN sh.buffer[i - 5]
                    ELSE sh.buffer[i]]
        s1 == [s0 EXCEPT
                !.buffer = [shellStringCopy(moved, <<"h", "e", "l", "p">>)
                                EXCEPT ![4] = " "],
                !.length = @ + 5,
                !.cursor = sh.length + 5]
    IN  shellDisplayBuffer(s1)

\* shellTab that does not look at tabFlag
shellTabAnyTab(sh, inWindow) ==
    LET s0 == [sh EXCEPT !.buffer[sh.length] = NUL]
        scan == shellTabScan(s0,
                    [matchNum |-> 0, lastMatchIndex |-> 0, maxMatch |-> capacity], 0)
        filled == shellTabFill(scan.sh, scan.st)
        active == [sh EXCEPT !.isActive = 1]
        listed == shellDisplay(
                    [shellHelp(Call(active, <<"help", 1, active.isActive>>), 1)
                        EXCEPT !.isActive = 0],
                    Prompt)
    IN  IF sh.length # 0
        THEN IF scan.st.matchNum = 0
             THEN s0
             ELSE IF scan.st.matchNum = 1 /\ inWindow
             THEN shellTabHelpPrefix(filled)
             ELSE filled
        ELSE listed

\* inWindow: SHELL_GET_TICK() is not 0 and
\* SHELL_GET_TICK() - shell->activeTime < SHELL_DOUBLE_CLICK_TIME
shellTab(sh, inWindow) ==
    LET s0 == [sh EXCEPT !.buffer[sh.length] = NUL]
        scan == shellTabScan(s0,
                    [matchNum |-> 0, lastMatchIndex |-> 0, maxMatch |-> capacity], 0)
        filled == shellTabFill(scan.sh, scan.st)
        active == [sh EXCEPT !.isActive = 1]
        listed == shellDisplay(
                    [shellHelp(Call(active, <<"help", 1, active.isActive>>), 1)
                        EXCEPT !.isActive = 0],
                    Prompt)
    IN  IF sh.length # 0
        THEN IF scan.st.matchNum = 0
             THEN s0
             ELSE IF scan.st.matchNum = 1 /\ sh.tabFlag = 1 /\ inWindow
             THEN shellTabHelpPrefix(filled)
             ELSE filled
        ELSE listed

----------------------------------------------------------------------------
(* Escape sequences and key dispatch *)

shellAnsiStart(sh) == [sh EXCEPT !.inputMode = SHELL_ANSI_ESC]

shellAnsiCsi(sh, data) ==
    IF data = "A" THEN shellHistory(sh, 0)
    ELSE IF data = "B" THEN shellHistory(sh, 1)
    ELSE IF data = "C"
    THEN IF sh.cursor < sh.length
         THEN [shellDisplayByte(sh, sh.buffer[sh.cursor]) EXCEPT !.cursor = @ + 1]
         ELSE sh
    ELSE IF data = "D"
    THEN IF sh.cursor > 0
         THEN [shellDisplayByte(sh, "\\b") EXCEPT !.cursor = @ - 1]
         ELSE sh
    ELSE sh

\* shellAnsi that waits for an arrow letter once it has seen ESC [
shellAnsiWaitsForArrow(sh, data) ==
    IF sh.inputMode = SHELL_ANSI_CSI
    THEN [shellAnsiCsi(sh, data) EXCEPT !.inputMode =
                IF data \in {"A", "B", "C", "D"} THEN SHELL_IN_NORMAL
                ELSE SHELL_ANSI_CSI]
    ELSE IF sh.inputMode = SHELL_ANSI_ESC
    THEN [sh EXCEPT !.inputMode =
                IF data = "[" THEN SHELL_ANSI_CSI ELSE SHELL_IN_NORMAL]
    ELSE sh

shellAnsi(sh, data) ==
    IF sh.inputMode = SHELL_ANSI_CSI
    THEN [shellAnsiCsi(sh, data) EXCEPT !.inputMode = SHELL_IN_NORMAL]
    ELSE IF sh.inputMode = SHELL_ANSI_ESC
    THEN [sh EXCEPT !.inputMode =
                IF data = "[" THEN SHELL_ANSI_CSI ELSE SHELL_IN_NORMAL]
    ELSE sh

shellDefaultKeyFunctionList ==
    << [keyCode |-> SHELL_KEY_LF, keyFunction |-> "shellEnter"],
       [keyCode |-> SHELL_KEY_CR, keyFunction |-> "shellEnter"],
       [keyCode |-> SHELL_KEY_TAB, keyFunction |-> "shellTab"],
       [keyCode |-> SHELL_KEY_BACKSPACE, keyFunction |-> "shellBackspace"],
       [keyCode |-> SHELL_KEY_DELETE, keyFunction |-> "shellBackspace"],
       [keyCode |-> SHELL_KEY_ESC, keyFunction |-> "shellAnsiStart"] >>

\* a call through a keyFunction pointer; a function of the instance's own
\* table is the user's, and is recorded in the output as <<"key", name>>
CallKeyFunction(sh, f, garbage, inWindow) ==
    LET s0 == Call(sh, <<"key", f>>)
    IN  IF f = "NULL" THEN sh
        ELSE IF f = "shellEnter" THEN shellEnter(s0, garbage)
        ELSE IF f = "shellTab" THEN shellTab(s0, inWindow)
        ELSE IF f = "shellBackspace" THEN shellBackspace(s0)
        ELSE IF f = "shellAnsiStart" THEN shellAnsiStart(s0)
        ELSE shellDisplay(s0, <<"key", f>>)

\* one of the two table loops of shellHandler, from entry i (1-based) on
RECURSIVE RunKeyTable(_, _, _, _, _, _)
RunKeyTable(sh, table, i, data, garbage, inWindow) ==
    IF i > Len(table) THEN sh
    ELSE RunKeyTable(
            IF table[i].keyCode = data
            THEN CallKeyFunction(sh, table[i].keyFunction, garbage, inWindow)
            ELSE sh,
            table, i + 1, data, garbage, inWindow)

KeyDefFind(table, data) == \E i \in 1..Len(table) : table[i].keyCode = data

\* shellHandlerNormal that goes through the built-in table as well after the
\* instance's own table had an entry
shellHandlerNormalBoth(sh, data, garbage, inWindow) ==
    IF KeyDefFind(sh.keyFuncBase, data) \/ KeyDefFind(shellDefaultKeyFunctionList, data)
    THEN RunKeyTable(RunKeyTable(sh, sh.keyFuncBase, 1, data, garbage, inWindow),
                     shellDefaultKeyFunctionList, 1, data, garbage, inWindow)
    ELSE shellNormal(sh, data)

shellHandlerNormal(sh, data, garbage, inWindow) ==
    IF KeyDefFind(sh.keyFuncBase, data)
    THEN RunKeyTable(sh, sh.keyFuncBase, 1, data, garbage, inWindow)
    ELSE IF KeyDefFind(shellDefaultKeyFunctionList, data)
    THEN RunKeyTable(sh, shellDefaultKeyFunctionList, 1, data, garbage, inWindow)
    ELSE shellNormal(sh, data)

\* shellHandler(shell, data).  out, calls, histIdx and paramCount describe one
\* call: what it printed, the functions it called through a pointer, the
\* history slots it used, the tokens shellEnter counted
shellHandler(sh, data, garbage, inWindow) ==
    LET s0 == [sh EXCEPT !.out = <<>>, !.calls = <<>>, !.histIdx = {},
                         !.paramCount = 0]
        s1 == IF sh.inputMode = SHELL_IN_NORMAL
              THEN shellHandlerNormal(s0, data, garbage, inWindow)
              ELSE shellAnsi(s0, data)
    IN  [s1 EXCEPT !.tabFlag = IF data = SHELL_KEY_TAB THEN 1 ELSE 0]

----------------------------------------------------------------------------
(* The instance after shellInit, and the builds and terminals it is run on *)

Command(name) == [name |-> name]

\* a zero-initialised SHELL_TypeDef after shellInit
shellInit(cap, commands, keys) ==
    [buffer |-> [i \in 0..(cap - 1) |-> NUL],
     length |-> 0,
     cursor |-> 0,
     param |-> <<>>,
     history |-> [i \in 0..(SHELL_HISTORY_MAX_NUMBER - 1) |-> <<>>],
     historyCount |-> 0,
     historyFlag |-> 0,
     historyOffset |-> 0,
     inputMode |-> SHELL_IN_NORMAL,
     tabFlag |-> 0,
     isActive |-> 0,
     commandBase |-> commands,
     keyFuncBase |-> keys,
     paramCount |-> 0,
     out |-> <<>>,
     calls |-> <<>>,
     histIdx |-> {}]

ArrowBytes == {"A", "B", "C", "D"}

\* a terminal: the bytes it sends in each input mode, and its tick source
Terminal(normal, esc, csi, tick) ==
    [normal |-> normal, esc |-> esc, csi |-> csi, tick |-> tick,
     typed |-> <<>>, ups |-> 0]

\* a terminal that sends a script and nothing else: the lines typed, each
\* ended by Enter, then Up arrows
Scripted(typed, ups) ==
    [normal |-> {}, esc |-> {}, csi |-> {}, tick |-> FALSE,
     typed |-> typed, ups |-> ups]

RECURSIVE Flatten(_)
Flatten(seqs) == IF seqs = <<>> THEN <<>> ELSE Head(seqs) \o Flatten(Tail(seqs))

UpArrow == <<SHELL_KEY_ESC, "[", "A">>

\* the bytes a scripted terminal sends
ScriptOf(term) ==
    Flatten([i \in 1..Len(term.typed) |-> term.typed[i] \o <<SHELL_KEY_CR>>])
        \o Flatten([i \in 1..term.ups |-> UpArrow])

\* all sequences over S of length lo..hi
SeqsOf(S, lo, hi) == UNION {[1..n -> S] : n \in lo..hi}

MaxLen(lines) ==
    IF lines = <<>> THEN 0
    ELSE CHOOSE m \in {Len(lines[i]) : i \in 1..Len(lines)} :
            \A i \in 1..Len(lines) : Len(lines[i]) <= m

Setup(cap, names, term, script) ==
    [capacity |-> cap,
     commandBase |-> [i \in 1..Len(names) |-> Command(names[i])],
     keyFuncBase |-> <<>>,
     terminal |-> term,
     script |-> script]

\* every key of the editor with one printable byte, no tick source
KeysSetup ==
    Setup(SmallCapacity, << <<"a">>, <<"a", "a">> >>,
          Terminal({"a", SHELL_KEY_CR, SHELL_KEY_TAB, SHELL_KEY_BACKSPACE, SHELL_KEY_ESC},
                   {"["}, ArrowBytes, FALSE),
          <<>>)

\* editing inside the line: two printable bytes, both delete keys, Left and Right
EditSetup ==
    Setup(SmallCapacity, << <<"a">> >>,
          Terminal({"a", "b", NUL, SHELL_KEY_BACKSPACE, SHELL_KEY_DELETE, SHELL_KEY_ESC},
                   {"[", "a", SHELL_KEY_BACKSPACE}, {"C", "D", "a", SHELL_KEY_BACKSPACE},
                   FALSE),
          <<>>)

\* accepting and recalling lines: Enter, Up and Down
HistorySetup ==
    Setup(SmallCapacity, << <<"a">> >>,
          Terminal({"a", SHELL_KEY_LF, SHELL_KEY_ESC},
                   {"["}, {"A", "B"}, FALSE),
          <<>>)

\* completion with a tick source, in a buffer with room for the "help " prefix
TabSetup ==
    Setup(SmallCapacity + 5, << <<"a", "b">>, <<"b">>, <<"a", "a", "b">> >>,
          Terminal({"a", "b", SHELL_KEY_TAB, SHELL_KEY_BACKSPACE},
                   {"["}, ArrowBytes, TRUE),
          <<>>)

Status == <<"s", "t", "a", "t", "u", "s">>
Stop == <<"s", "t", "o", "p">>
Start == <<"s", "t", "a", "r", "t">>

\* the three commands of the completion example, in the smallest buffer
StatusSetup ==
    Setup(Len(Status) + 1, <<Status, Stop, Start>>,
          Terminal({"s", "t", "a", SHELL_KEY_TAB, SHELL_KEY_BACKSPACE},
                   {"["}, ArrowBytes, FALSE),
          <<>>)

\* the two lines of the tokenizer examples
QuotedLine ==
    <<"f", "o", "o", " ", "\"", "b", "a", "r", " ", "b", "a", "z", "\"", " ",
      "q", "u", "x">>
EscapedLine == <<"a", "\\", " ", "b", " ", "c">>

TokenBytes == {"a", " ", ",", "\"", "\\"}

\* lines for the help command: alone, with a known and with an unknown name
HelpLine == <<"h", "e", "l", "p">>
HelpLines == {HelpLine, HelpLine \o <<" ", "a">>, HelpLine \o <<" ", "b">>}

\* one line typed into the smallest buffer that takes it, then Enter
TokenSetups ==
    {Setup(Len(line) + 1, << <<"a">> >>, Scripted(<<line>>, 0), <<>>) :
        line \in SeqsOf(TokenBytes, 1, MaxTokenLine)
                    \cup {QuotedLine, EscapedLine} \cup HelpLines}

HistoryLines == {<<"a">>, <<"b">>, <<"a", "b">>}

\* lines accepted one after the other, then Up arrows
RecallSetups ==
    {Setup(SmallCapacity, << <<"a">> >>, Scripted(lines, ups), <<>>) :
        lines \in SeqsOf(HistoryLines, 1, SHELL_HISTORY_MAX_NUMBER + MaxExtraLines),
        ups \in 1..SHELL_HISTORY_MAX_NUMBER}

\* the table an application hands to shellSetKeyFuncList: Tab twice, a
\* printable byte, and Backspace with no function
UserKeys ==
    << [keyCode |-> SHELL_KEY_TAB, keyFunction |-> "userTab"],
       [keyCode |-> "b", keyFunction |-> "userB"],
       [keyCode |-> SHELL_KEY_TAB, keyFunction |-> "userTabAgain"],
       [keyCode |-> SHELL_KEY_BACKSPACE, keyFunction |-> "NULL"] >>

\* an instance with a key table of its own
OverrideSetup ==
    [Setup(SmallCapacity, << <<"a">> >>,
           Terminal({"a", "b", SHELL_KEY_TAB, SHELL_KEY_BACKSPACE, SHELL_KEY_DELETE,
                     SHELL_KEY_CR},
                    {}, {}, FALSE),
           <<>>)
        EXCEPT !.keyFuncBase = UserKeys]

\* lines for the dispatcher
DispatchBytes == {"a", " "}

\* a table with a name registered twice, and one line typed, then Enter
DispatchSetups ==
    {Setup(SmallCapacity, << <<"a", "a">>, <<"a">>, <<"a">> >>, Scripted(<<line>>, 0), <<>>) :
        line \in SeqsOf(DispatchBytes, 1, SmallCapacity - 1)}

\* one token more than param has room for, in the shortest line that holds them
OverflowLine ==
    <<"a">> \o Flatten([i \in 1..SHELL_PARAMETER_MAX_NUMBER |-> <<" ", "a">>])

\* that line typed into a buffer that takes it, then Enter
ParamSetups ==
    {Setup(Len(line) + 1, << <<"a">> >>, Scripted(<<line>>, 0), <<>>) :
        line \in {OverflowLine, Tail(Tail(OverflowLine))}}

FreeSetups == {KeysSetup, EditSetup, HistorySetup, TabSetup, StatusSetup, OverrideSetup}

Setups ==
    FreeSetups \cup TokenSetups \cup RecallSetups \cup DispatchSetups \cup ParamSetups

\* every name fits the buffer, with the "help " prefix where a tick is wired
Fits(setup) ==
    \A i \in 1..Len(setup.commandBase) :
        Len(setup.commandBase[i].name) + (IF setup.terminal.tick THEN 5 ELSE 0)
            < setup.capacity

NoUndo == [valid |-> FALSE, undone |-> FALSE, text |-> <<>>, cursor |-> 0]
NoTrip == [up |-> 0, down |-> 0, text |-> <<>>]

Init ==
    \E setup \in Setups :
        /\ Fits(setup)
        /\ shell = shellInit(setup.capacity, setup.commandBase, setup.keyFuncBase)
        /\ capacity = setup.capacity
        /\ terminal = setup.terminal
        /\ pending = setup.script \o ScriptOf(setup.terminal)
        /\ lastKey = [data |-> NUL, mode |-> SHELL_IN_NORMAL, fn |-> "shellInit",
                      edited |-> FALSE, inWindow |-> FALSE]
        /\ undo = NoUndo
        /\ trip = NoTrip

----------------------------------------------------------------------------
(* The transport delivers one byte to shellHandler *)

\* the line being edited: buffer[0 .. length-1]
Line(sh) == Bytes(sh.buffer, sh.length)

\* the bytes the transport may deliver next; what the instance does after a
\* store outside param is not followed
Deliverable ==
    IF shell.paramCount > SHELL_PARAMETER_MAX_NUMBER THEN {}
    ELSE IF pending # <<>> THEN {Head(pending)}
    ELSE IF shell.inputMode = SHELL_IN_NORMAL THEN terminal.normal
    ELSE IF shell.inputMode = SHELL_ANSI_ESC THEN terminal.esc
    ELSE terminal.csi

\* the key function the built-in table gives data, in Normal mode
DefaultKey(data) ==
    IF KeyDefFind(shell.keyFuncBase, data) THEN "user"
    ELSE IF data \in {SHELL_KEY_LF, SHELL_KEY_CR} THEN "shellEnter"
    ELSE IF data = SHELL_KEY_TAB THEN "shellTab"
    ELSE IF data \in {SHELL_KEY_BACKSPACE, SHELL_KEY_DELETE} THEN "shellBackspace"
    ELSE IF data = SHELL_KEY_ESC THEN "shellAnsiStart"
    ELSE "shellNormal"

Routed(data, f) == shell.inputMode = SHELL_IN_NORMAL /\ DefaultKey(data) = f

IsUp(data) == shell.inputMode = SHELL_ANSI_CSI /\ data = "A"
IsDown(data) == shell.inputMode = SHELL_ANSI_CSI /\ data = "B"

\* the function shellHandler hands data to
RoutedTo(data) ==
    IF shell.inputMode = SHELL_IN_NORMAL THEN DefaultKey(data) ELSE "shellAnsi"

\* the line before an insert that shellNormal carries out; undone once the
\* very next call is a delete-backward
UndoAfter(data) ==
    IF Routed(data, "shellNormal") /\ data # NUL /\ shell.length < capacity - 1
    THEN [valid |-> TRUE, undone |-> FALSE, text |-> Line(shell), cursor |-> shell.cursor]
    ELSE IF Routed(data, "shellBackspace") /\ undo.valid /\ ~undo.undone
    THEN [undo EXCEPT !.undone = TRUE]
    ELSE NoUndo

\* a run of Up arrows that starts with historyOffset == 0, then Down arrows
TripAfter(data) ==
    IF shell.inputMode = SHELL_IN_NORMAL /\ data = SHELL_KEY_ESC THEN trip
    ELSE IF shell.inputMode = SHELL_ANSI_ESC /\ data = "[" THEN trip
    ELSE IF IsUp(data)
    THEN IF trip.up > 0 /\ trip.down = 0
         THEN IF trip.up < MaxTrip THEN [trip EXCEPT !.up = @ + 1] ELSE NoTrip
         ELSE IF shell.historyOffset = 0
         THEN [up |-> 1, down |-> 0, text |-> Line(shell)]
         ELSE NoTrip
    ELSE IF IsDown(data)
    THEN IF trip.up > 0 /\ trip.down < trip.up
         THEN [trip EXCEPT !.down = @ + 1]
         ELSE NoTrip
    ELSE NoTrip

Deliver(data, garbage, inWindow) ==
    /\ data \in Deliverable
    /\ shell' = shellHandler(shell, data, garbage, inWindow)
    /\ pending' = IF pending # <<>> THEN Tail(pending) ELSE pending
    /\ lastKey' = [data |-> data, mode |-> shell.inputMode, fn |-> RoutedTo(data),
                   edited |-> shell'.buffer # shell.buffer \/ shell'.length # shell.length,
                   inWindow |-> inWindow]
    /\ undo' = UndoAfter(data)
    /\ trip' = TripAfter(data)
    /\ UNCHANGED <<capacity, terminal>>

\* Enter: the compare against history[-1] reads garbage when historyFlag == 0
KeyEnter ==
    \E data \in {SHELL_KEY_LF, SHELL_KEY_CR}, garbage \in BOOLEAN :
        /\ Routed(data, "shellEnter")
        /\ Deliver(data, garbage, FALSE)

\* Tab: the double-click window is open or not when a tick source is wired
KeyTab ==
    \E inWindow \in (IF terminal.tick THEN BOOLEAN ELSE {FALSE}) :
        /\ Routed(SHELL_KEY_TAB, "shellTab")
        /\ Deliver(SHELL_KEY_TAB, FALSE, inWindow)

KeyBackspace ==
    \E data \in {SHELL_KEY_BACKSPACE, SHELL_KEY_DELETE} :
        /\ Routed(data, "shellBackspace")
        /\ Deliver(data, FALSE, FALSE)

KeyEscape ==
    /\ Routed(SHELL_KEY_ESC, "shellAnsiStart")
    /\ Deliver(SHELL_KEY_ESC, FALSE, FALSE)

KeyLiteral ==
    \E data \in Deliverable :
        /\ Routed(data, "shellNormal")
        /\ Deliver(data, FALSE, FALSE)

AnsiByte ==
    \E data \in Deliverable :
        /\ shell.inputMode # SHELL_IN_NORMAL
        /\ Deliver(data, FALSE, FALSE)

\* a byte the instance's own key table has an entry for
KeyOverride ==
    \E data \in Deliverable :
        /\ Routed(data, "user")
        /\ Deliver(data, FALSE, FALSE)

Next ==
    \/ KeyOverride
    \/ KeyEnter
    \/ KeyTab
    \/ KeyBackspace
    \/ KeyEscape
    \/ KeyLiteral
    \/ AnsiByte

Spec == Init /\ [][Next]_vars

----------------------------------------------------------------------------
(* Properties *)

C2_TerminatorAfterAnyMutation ==
    (/\ lastKey.edited
     /\ lastKey.fn \in {"shellNormal", "shellBackspace", "shellAnsi", "shellTab"})
        => shell.buffer[shell.length] = NUL

\* the calls after which the terminator is in place: an insert before the end
\* of the line, a delete-backward that removed a byte, a recall that copied a
\* history slot, a Tab on a line that is not empty
WritesTerminator ==
    \/ undo.valid /\ ~undo.undone /\ undo.cursor < Len(undo.text)
    \/ lastKey.fn = "shellBackspace" /\ lastKey.edited
    \/ lastKey.fn = "shellAnsi" /\ lastKey.mode = SHELL_ANSI_CSI
        /\ lastKey.data \in {"A", "B"} /\ shell.historyOffset # 0
    \/ lastKey.fn = "shellTab" /\ shell.length # 0

\* C2 as amended: buffer[length] is the terminator after every call that
\* inserted before the end of the line, deleted a byte backward, copied a
\* history slot into the buffer or completed a line that was not empty.
C2_TerminatorWhereWritten ==
    WritesTerminator => shell.buffer[shell.length] = NUL

\* C2 witness: an insert before the end of a line typed after an earlier line
\* was accepted, over bytes the earlier line left behind
C2_Witness ==
    /\ undo.valid /\ ~undo.undone /\ undo.cursor < Len(undo.text)
    /\ shell.historyCount > 0
    /\ shell.length + 1 < capacity

\* C3: a literal byte inserted at any cursor position and deleted backward
\* by the very next call leaves buffer[0..n-1], length and cursor as they
\* were before the insert.
C3_InsertDeleteRoundTrip ==
    undo.undone =>
        /\ Line(shell) = undo.text
        /\ shell.length = Len(undo.text)
        /\ shell.cursor = undo.cursor

\* C3 witness: the byte was inserted inside the line, not at either end
C3_Witness ==
    /\ undo.undone
    /\ undo.cursor > 0
    /\ undo.cursor < Len(undo.text)

\* the entry stored last, when there is one
MostRecentEntry(sh) ==
    sh.history[(sh.historyFlag + SHELL_HISTORY_MAX_NUMBER - 1)
                    % SHELL_HISTORY_MAX_NUMBER]

\* C4: accepting a line equal to the entry stored last leaves historyCount,
\* historyFlag and the stored entries unchanged, whatever historyFlag is.
C4_DuplicateSuppressed ==
    [][(/\ lastKey'.fn = "shellEnter"
        /\ shell.length # 0
        /\ shell.historyCount > 0
        /\ Line(shell) = MostRecentEntry(shell))
       => (/\ shell'.historyCount = shell.historyCount
           /\ shell'.historyFlag = shell.historyFlag
           /\ shell'.history = shell.history)]_vars

\* C5: every read or write of the history array uses a slot index in
\* 0 .. SHELL_HISTORY_MAX_NUMBER - 1.
C5_HistoryIndexInRange ==
    \A i \in shell.histIdx : InHistory(i)

\* a run of Up arrows from historyOffset == 0 answered by as many Down arrows
TripDone == trip.up >= 1 /\ trip.down = trip.up

\* C6 as stated: k recalls of older entries followed by k recalls of newer
\* ones bring back the content and length the line had before the first.
C6_RecallRestoresLine ==
    TripDone => Line(shell) = trip.text

\* C6 as amended: k recalls of older entries followed by k recalls of newer
\* ones leave the line empty (length 0, cursor 0), whatever it held before;
\* the line is as before only when it was empty.
C6_RecallEndsEmpty ==
    TripDone => shell.length = 0 /\ shell.cursor = 0 /\ shell.historyOffset = 0

\* C6 witness: two Up and two Down arrows over a line in progress, with
\* lines stored in the history
C6_Witness ==
    /\ TripDone
    /\ trip.up >= 2
    /\ trip.text # <<>>
    /\ shell.historyCount >= 2

\* the bytes of the script the terminal has sent so far
Consumed == Len(ScriptOf(terminal)) - Len(pending)

\* the bytes of the script that type and accept its lines
TypingBytes == Len(ScriptOf([terminal EXCEPT !.ups = 0]))

NoTwoEqualInARow(lines) ==
    \A i \in 1..(Len(lines) - 1) : lines[i] # lines[i + 1]

\* C7: after lines were accepted, no two consecutive ones equal, the j-th Up
\* arrow in a row (j up to the number of lines and the history capacity) puts
\* the j-th most recently accepted line in the buffer, as typed, with the
\* cursor at its end.
C7_UpRecallsNewestFirst ==
    \A j \in 1..Min(Len(terminal.typed), SHELL_HISTORY_MAX_NUMBER) :
        (/\ terminal.ups >= j
         /\ NoTwoEqualInARow(terminal.typed)
         /\ Consumed = TypingBytes + 3 * j)
        => (/\ Line(shell) = terminal.typed[Len(terminal.typed) + 1 - j]
            /\ shell.cursor = shell.length)

\* the tokens of the last shellEnter: the C strings param[0..paramCount-1]
\* point at
Tokens(sh) == [k \in 1..sh.paramCount |-> CStr(sh.buffer, sh.param[k])]

TokenStarts(sh) == {sh.param[k] : k \in 1..sh.paramCount}

\* the state right after the one line of a scripted terminal was accepted
AcceptedLine(line) ==
    /\ terminal.typed = <<line>>
    /\ terminal.ups = 0
    /\ pending = <<>>

\* the line of a terminal scripted to type one line
TypedLine == IF Len(terminal.typed) = 1 THEN terminal.typed[1] ELSE <<>>

\* byte i of the line (from 1) follows a backslash that is not itself escaped
RECURSIVE Escaped(_, _)
Escaped(line, i) ==
    /\ i > 1
    /\ line[i - 1] = "\\"
    /\ ~Escaped(line, i - 1)

\* byte i of the line lies after an odd number of quote bytes in effect
Quoted(line, i) ==
    Cardinality({j \in 1..(i - 1) : line[j] = "\"" /\ ~Escaped(line, j)}) % 2 = 1

\* C8: on Enter a delimiter between a pair of double quotes does not split
\* the token, the quote bytes are in no token, and foo "bar baz" qux gives
\* the three tokens foo, bar baz, qux.
C8_QuotedTokens ==
    /\ AcceptedLine(QuotedLine) =>
            Tokens(shell) = << <<"f", "o", "o">>,
                               <<"b", "a", "r", " ", "b", "a", "z">>,
                               <<"q", "u", "x">> >>
    /\ \A i \in 1..Len(TypedLine) :
        LET line == TypedLine IN
        AcceptedLine(line) =>
            /\ (line[i] = "\"" /\ ~Escaped(line, i)) => shell.buffer[i - 1] = NUL
            /\ (IsDelimiter(line[i]) /\ Quoted(line, i)) =>
                    /\ shell.buffer[i - 1] = line[i]
                    /\ i \notin TokenStarts(shell)

\* C8 witness: foo "bar baz" qux was accepted and gave three tokens
C8_Witness ==
    /\ AcceptedLine(QuotedLine)
    /\ lastKey.fn = "shellEnter"
    /\ shell.paramCount = 3

\* C9 as stated: on Enter the byte after a backslash is not interpreted and
\* does not split the token, and a\ b c gives the two tokens a b and c.
C9_EscapeDropsBackslash ==
    /\ AcceptedLine(EscapedLine) =>
            Tokens(shell) = << <<"a", " ", "b">>, <<"c">> >>
    /\ \A i \in 1..Len(TypedLine) :
        (AcceptedLine(TypedLine) /\ Escaped(TypedLine, i)) =>
            /\ shell.buffer[i - 1] = TypedLine[i]
            /\ i \notin TokenStarts(shell)

\* C9 as amended: on Enter the byte after a backslash that is not itself
\* escaped is left as it is, starts no token and ends none, and the backslash
\* stays in the token; a\ b c gives two tokens, the four bytes a\ b and c.
C9_EscapeKeepsBackslash ==
    /\ AcceptedLine(EscapedLine) =>
            Tokens(shell) = << <<"a", "\\", " ", "b">>, <<"c">> >>
    /\ \A i \in 1..Len(TypedLine) :
        LET line == TypedLine IN
        (AcceptedLine(line) /\ Escaped(line, i)) =>
            /\ shell.buffer[i - 1] = line[i]
            /\ shell.buffer[i - 2] = "\\"
            /\ (i - 1) \notin TokenStarts(shell)
            /\ i \notin TokenStarts(shell)

\* C9 witness: a\ b c was accepted and gave two tokens
C9_Witness ==
    /\ AcceptedLine(EscapedLine)
    /\ lastKey.fn = "shellEnter"
    /\ shell.paramCount = 2

IsPrefix(p, s) == Len(p) <= Len(s) /\ SubSeq(s, 1, Len(p)) = p

\* the table entries the line is a prefix of
Matches(sh) == {i \in 0..(commandNumber(sh) - 1) : IsPrefix(Line(sh), CommandName(sh, i))}

\* the longest sequence that is a prefix of every name with an index in M
CommonPrefix(sh, M) ==
    LET first == CommandName(sh, CHOOSE i \in M : TRUE)
        common == {n \in 0..Len(first) :
                    \A i \in M : IsPrefix(SubSeq(first, 1, n), CommandName(sh, i))}
    IN  SubSeq(first, 1, CHOOSE n \in common : \A m \in common : m <= n)

\* the rows of the command list printed by the current call, in order
Listed(sh) ==
    LET rows == SelectSeq(sh.out, LAMBDA e : e[1] = "item")
    IN  [k \in 1..Len(rows) |-> rows[k][2]]

StatusTable == commandNumber(shell) = 3
    /\ CommandName(shell, 0) = Status
    /\ CommandName(shell, 1) = Stop
    /\ CommandName(shell, 2) = Start

\* C10: Tab on a line that is not empty and is a prefix of two or more
\* command names lists every matching command exactly once and leaves the
\* longest common prefix of the matched names in the buffer, with length its
\* length and the cursor at the end; with status, stop, start and the line
\* st, all three are listed and the buffer is st.
C10_TabMultiMatch ==
    [][(/\ lastKey'.fn = "shellTab"
        /\ shell.length # 0
        /\ Cardinality(Matches(shell)) >= 2)
       => (/\ {Listed(shell')[k] : k \in 1..Len(Listed(shell'))} = Matches(shell)
           /\ Len(Listed(shell')) = Cardinality(Matches(shell))
           /\ CStr(shell'.buffer, 0) = CommonPrefix(shell, Matches(shell))
           /\ shell'.length = Len(CommonPrefix(shell, Matches(shell)))
           /\ shell'.cursor = shell'.length
           /\ (StatusTable /\ Line(shell) = <<"s", "t">>) =>
                    /\ Listed(shell') = <<0, 1, 2>>
                    /\ CStr(shell'.buffer, 0) = <<"s", "t">>)]_vars

\* C10 witness: Tab on st with status, stop, start listed all three and left st
C10_Witness ==
    /\ StatusTable
    /\ lastKey.fn = "shellTab"
    /\ Listed(shell) = <<0, 1, 2>>
    /\ Line(shell) = <<"s", "t">>
    /\ shell.cursor = 2

\* the line is the full name of one command and a prefix of no other
UniqueComplete(sh) ==
    /\ sh.length # 0
    /\ \E i \in Matches(sh) : Matches(sh) = {i} /\ CommandName(sh, i) = Line(sh)

\* the step is a call of shellTab with the double-click test of shell.c:479
\* false: the byte before was not Tab, or the window is closed
SingleTabStep ==
    /\ lastKey'.fn = "shellTab"
    /\ ~(shell.tabFlag = 1 /\ lastKey'.inWindow)

\* C11 as stated: a Tab that is not a double activation, on a line that is
\* one command's full name and a prefix of no other, leaves buffer contents,
\* length and cursor as they were, for every cursor position.
C11_TabOnCompleteNameNoOp ==
    [][(SingleTabStep /\ UniqueComplete(shell))
       => (/\ Line(shell') = Line(shell)
           /\ shell'.length = shell.length
           /\ shell'.cursor = shell.cursor)]_vars

\* C11 as amended: such a Tab leaves the line and its length as they were,
\* terminates the buffer and puts the cursor at the end of the line; the
\* cursor is as before only when it was at the end.
C11_TabOnCompleteNameKeepsLine ==
    [][(SingleTabStep /\ UniqueComplete(shell))
       => (/\ Line(shell') = Line(shell)
           /\ CStr(shell'.buffer, 0) = Line(shell)
           /\ shell'.length = shell.length
           /\ shell'.cursor = shell'.length)]_vars

\* C11 witness: with the commands a and aa, the line aa after a Tab; Tab
\* leaves aa only when the line was aa before
C11_Witness ==
    /\ lastKey.fn = "shellTab"
    /\ ~lastKey.inWindow
    /\ commandNumber(shell) = 2
    /\ CommandName(shell, 0) = <<"a">>
    /\ CommandName(shell, 1) = <<"a", "a">>
    /\ Line(shell) = <<"a", "a">>
    /\ shell.cursor = 2

\* the calls one loop of shellHandler makes for data: the functions of the
\* entries with that key code, in table order, entries without a function left out
KeyCalls(table, data) ==
    LET hit == SelectSeq(table, LAMBDA e : e.keyCode = data /\ e.keyFunction # "NULL")
    IN  [k \in 1..Len(hit) |-> <<"key", hit[k].keyFunction>>]

\* the key functions the last shellHandler call called, in order
KeyCallsMade(sh) == SelectSeq(sh.calls, LAMBDA e : e[1] = "key")

\* the last byte came in Normal mode
NormalByte == lastKey.mode = SHELL_IN_NORMAL /\ lastKey.fn # "shellInit"

\* C12 as stated: for a byte received in Normal mode with an entry in the
\* instance's own table and an entry in the built-in table, both actions are
\* called, the instance's first and the built-in one second.
C12_BothTablesInvoked ==
    (/\ NormalByte
     /\ KeyDefFind(shell.keyFuncBase, lastKey.data)
     /\ KeyDefFind(shellDefaultKeyFunctionList, lastKey.data))
    => KeyCallsMade(shell) =
            KeyCalls(shell.keyFuncBase, lastKey.data)
                \o KeyCalls(shellDefaultKeyFunctionList, lastKey.data)

\* C12 as amended: for a byte received in Normal mode with an entry in the
\* instance's own table, the functions of all its entries there are called in
\* table order and nothing of the built-in table is called, also when the
\* entry has no function; the built-in action is called only for a byte the
\* instance's table has no entry for.
C12_OverrideReplacesDefault ==
    /\ (NormalByte /\ KeyDefFind(shell.keyFuncBase, lastKey.data))
        => KeyCallsMade(shell) = KeyCalls(shell.keyFuncBase, lastKey.data)
    /\ (NormalByte /\ ~KeyDefFind(shell.keyFuncBase, lastKey.data))
        => KeyCallsMade(shell) = KeyCalls(shellDefaultKeyFunctionList, lastKey.data)

\* C12 witness: Tab, which both tables have entries for, was delivered to a
\* line in progress and the two functions of the instance's table were called
C12_Witness ==
    /\ NormalByte
    /\ lastKey.data = SHELL_KEY_TAB
    /\ KeyDefFind(shell.keyFuncBase, SHELL_KEY_TAB)
    /\ shell.calls = << <<"key", "userTab">>, <<"key", "userTabAgain">> >>
    /\ shell.length > 0

\* the handler calls of the last shellHandler call: commands of the table,
\* shellHelp from the dispatcher and shellHelp from Tab on an empty line
HandlerCalls(sh) == SelectSeq(sh.calls, LAMBDA e : e[1] \in {"cmd", "help"})

\* C13: between two shellHandler calls isActive is 0, whatever bytes were
\* delivered, and every handler (a command of the table, help, the help
\* listing of Tab on an empty line) was called with isActive set to 1.
C13_ActiveOnlyDuringHandler ==
    /\ shell.isActive = 0
    /\ \A k \in 1..Len(HandlerCalls(shell)) : HandlerCalls(shell)[k][3] = 1

\* C13 witness: Enter has just run a command of the table
C13_Witness ==
    /\ lastKey.fn = "shellEnter"
    /\ Len(HandlerCalls(shell)) = 1
    /\ HandlerCalls(shell)[1][1] = "cmd"
    /\ shell.historyCount > 0

\* the step hands a byte other than 0 to shellNormal
LiteralStep == lastKey'.fn = "shellNormal" /\ lastKey'.data # NUL

\* what a refused insert prints: the warning, the prompt, the line
TooLongOutput(sh) == <<TEXT_CMD_TOO_LONG, Prompt, <<"str", Line(sh)>> >>

\* C14 as stated: a literal insert that would make length reach capacity-1 is
\* refused: buffer, length and cursor are unchanged, for every cursor
\* position, and the output is the warning, the prompt and the buffer.
C14_TooLongIsNoOp ==
    [][(LiteralStep /\ shell.length + 1 >= capacity - 1)
       => (/\ shell'.buffer = shell.buffer
           /\ shell'.length = shell.length
           /\ shell'.cursor = shell.cursor
           /\ shell'.out = TooLongOutput(shell))]_vars

\* C14 as amended: a literal insert is refused when length is already
\* capacity-1 (it would make length reach capacity); buffer and length are
\* unchanged, the cursor is put at the end of the line, and the output is the
\* warning, the prompt and the line.  With length below capacity-1 the byte
\* is inserted, also when that makes length capacity-1.
C14_TooLongKeepsLine ==
    [][/\ (LiteralStep /\ shell.length >= capacity - 1)
            => (/\ shell'.buffer = shell.buffer
                /\ shell'.length = shell.length
                /\ shell'.cursor = shell.length
                /\ shell'.out = TooLongOutput(shell))
       /\ (LiteralStep /\ shell.length < capacity - 1)
            => (/\ shell'.length = shell.length + 1
                /\ shell'.cursor = shell.cursor + 1
                /\ shell'.buffer[shell.cursor] = lastKey'.data
                /\ TEXT_CMD_TOO_LONG \notin {shell'.out[k] : k \in 1..Len(shell'.out)})]_vars

\* C14 witness: an insert into a full line was refused after an earlier line
\* had been accepted
C14_Witness ==
    /\ lastKey.fn = "shellNormal"
    /\ lastKey.data # NUL
    /\ shell.length = capacity - 1
    /\ shell.out = TooLongOutput(shell)
    /\ shell.historyCount > 0

\* C15: after every Enter that has been processed, on an empty line or not
\* and whatever editing came before, historyOffset is 0.
C15_OffsetZeroAfterEnter ==
    lastKey.fn = "shellEnter" => shell.historyOffset = 0

\* C16: after every Enter (on an empty line, on delimiters only, on help, on
\* a command of the table, on an unknown command) the last thing printed is
\* the prompt, and length and cursor are 0.
C16_EnterEndsWithPrompt ==
    lastKey.fn = "shellEnter" =>
        /\ shell.out # <<>>
        /\ shell.out[Len(shell.out)] = Prompt
        /\ shell.length = 0
        /\ shell.cursor = 0

\* C16 witness: help with the name of a command was accepted, the help text
\* of that command was printed and then the prompt
C16_Witness ==
    /\ AcceptedLine(HelpLine \o <<" ", "a">>)
    /\ lastKey.fn = "shellEnter"
    /\ shell.out = <<CRLF, <<"help", 0>>, Prompt>>
    /\ shell.length = 0

\* buffer, length and cursor are left as they are and nothing is printed
\* or called
Discarded ==
    /\ shell'.buffer = shell.buffer
    /\ shell'.length = shell.length
    /\ shell'.cursor = shell.cursor
    /\ shell'.out = <<>>
    /\ shell'.calls = <<>>

\* the line after a recall: empty, a stored line, or the line as it was
RecallResult ==
    \/ shell'.length = 0
    \/ Line(shell') = Line(shell)
    \/ \E i \in DOMAIN shell.history : Line(shell') = shell.history[i]

\* C17: with no entry for ESC in the instance's own table, ESC in Normal mode
\* leads to SHELL_ANSI_ESC with no output and no change of buffer, length or
\* cursor; in SHELL_ANSI_ESC the byte [ leads to SHELL_ANSI_CSI and any other
\* byte back to Normal, discarded; in SHELL_ANSI_CSI every byte leads back to
\* Normal and only A, B, C, D have an effect, none of them an insert.
C17_EscapeStateMachine ==
    [][/\ (/\ shell.inputMode = SHELL_IN_NORMAL
           /\ lastKey'.data = SHELL_KEY_ESC
           /\ ~KeyDefFind(shell.keyFuncBase, SHELL_KEY_ESC))
            => (/\ shell'.inputMode = SHELL_ANSI_ESC
                /\ shell'.buffer = shell.buffer
                /\ shell'.length = shell.length
                /\ shell'.cursor = shell.cursor
                /\ shell'.out = <<>>)
       /\ shell.inputMode = SHELL_ANSI_ESC
            => (/\ shell'.inputMode =
                        IF lastKey'.data = "[" THEN SHELL_ANSI_CSI ELSE SHELL_IN_NORMAL
                /\ Discarded)
       /\ shell.inputMode = SHELL_ANSI_CSI
            => (/\ shell'.inputMode = SHELL_IN_NORMAL
                /\ shell'.calls = <<>>
                /\ lastKey'.data \notin {"A", "B", "C", "D"} => Discarded
                /\ lastKey'.data \in {"C", "D"}
                    => shell'.buffer = shell.buffer /\ shell'.length = shell.length
                /\ lastKey'.data \in {"A", "B"} => RecallResult)]_vars

\* C17 witness: a byte that is a key of the editor came after ESC [ with a
\* line in progress and the shell is back in Normal mode
C17_Witness ==
    /\ lastKey.mode = SHELL_ANSI_CSI
    /\ lastKey.data = SHELL_KEY_BACKSPACE
    /\ shell.inputMode = SHELL_IN_NORMAL
    /\ shell.length > 1
    /\ shell.cursor < shell.length

\* the entries of the command table with the name of the first token
NamedByFirstToken(sh) ==
    {i \in 0..(commandNumber(sh) - 1) : CommandName(sh, i) = Arg(sh, 0)}

\* what the last call printed
Printed(sh) == {sh.out[k] : k \in 1..Len(sh.out)}

\* C18: after Enter on a line whose first token is not help, exactly one
\* handler was called, that of the lowest entry of the table whose name is
\* the first token, when there is such an entry; when there is none no
\* handler was called and "Command not found" was printed.  No Enter calls
\* more than one handler.
C18_DispatchFirstExactMatch ==
    /\ lastKey.fn = "shellEnter" => Len(HandlerCalls(shell)) <= 1
    /\ (/\ lastKey.fn = "shellEnter"
        /\ shell.paramCount >= 1
        /\ Arg(shell, 0) # HelpLine)
        => IF NamedByFirstToken(shell) # {}
           THEN /\ Len(HandlerCalls(shell)) = 1
                /\ HandlerCalls(shell)[1][1] = "cmd"
                /\ HandlerCalls(shell)[1][2] \in NamedByFirstToken(shell)
                /\ \A i \in NamedByFirstToken(shell) : HandlerCalls(shell)[1][2] <= i
                /\ TEXT_CMD_NONE \notin Printed(shell)
           ELSE /\ HandlerCalls(shell) = <<>>
                /\ TEXT_CMD_NONE \in Printed(shell)

\* C18 witness: the name a is registered at entries 1 and 2, a line with two
\* tokens and first token a was accepted, and entry 1 was called
C18_Witness ==
    /\ lastKey.fn = "shellEnter"
    /\ shell.paramCount = 2
    /\ NamedByFirstToken(shell) = {1, 2}
    /\ HandlerCalls(shell) = << <<"cmd", 1, 1>> >>

\* the step is a call of shellTab
TabStep == lastKey'.fn = "shellTab"

\* the byte delivered before this step was Tab and the window is open
DoubleTab == lastKey.data = SHELL_KEY_TAB /\ lastKey'.inWindow

\* the name completion puts in the buffer when exactly one command matches
MatchedName(sh) == CommandName(sh, CHOOSE i \in Matches(sh) : TRUE)

HelpPrefix == <<"h", "e", "l", "p", " ">>

\* C19: when Tab finds exactly one match, the byte delivered before was Tab
\* and the window is open, the buffer after it is "help " and the matched
\* name, length the name's length plus 5 and the cursor at the end; when the
\* byte before was not Tab or the window is closed the buffer is the matched
\* name alone, and with no match or several nothing is put in front either.
C19_DoubleTabHelpPrefix ==
    [][/\ (TabStep /\ shell.length # 0 /\ Cardinality(Matches(shell)) = 1 /\ DoubleTab)
            => (/\ CStr(shell'.buffer, 0) = HelpPrefix \o MatchedName(shell)
                /\ shell'.length = Len(MatchedName(shell)) + 5
                /\ shell'.cursor = shell'.length)
       /\ (TabStep /\ shell.length # 0 /\ Cardinality(Matches(shell)) = 1 /\ ~DoubleTab)
            => (/\ CStr(shell'.buffer, 0) = MatchedName(shell)
                /\ shell'.length = Len(MatchedName(shell)))
       /\ (TabStep /\ shell.length # 0 /\ Cardinality(Matches(shell)) > 1)
            => CStr(shell'.buffer, 0) = CommonPrefix(shell, Matches(shell))
       /\ (TabStep /\ shell.length # 0 /\ Matches(shell) = {})
            => Line(shell') = Line(shell)
       /\ (TabStep /\ shell.length = 0)
            => shell'.length = 0]_vars

\* C19 witness: a second Tab inside the window on the completed name aab left
\* help aab in the buffer
C19_Witness ==
    /\ lastKey.fn = "shellTab"
    /\ lastKey.inWindow
    /\ shell.tabFlag = 1
    /\ Line(shell) = HelpPrefix \o <<"a", "a", "b">>
    /\ shell.cursor = 8

\* the entries of param the last shellEnter stored to
ParamIndexes(sh) == 0..(sh.paramCount - 1)

InParam(i) == i \in 0..(SHELL_PARAMETER_MAX_NUMBER - 1)

\* C20: for every accepted line shorter than the buffer, shellEnter stores
\* token starts only to param[0 .. SHELL_PARAMETER_MAX_NUMBER-1].
C20_ParamStoresInBounds ==
    \A i \in ParamIndexes(shell) : InParam(i)

\* the last call was shellHistory and it copied a slot of the ring
RecalledSlot ==
    /\ lastKey.fn = "shellAnsi"
    /\ lastKey.mode = SHELL_ANSI_CSI
    /\ lastKey.data \in {"A", "B"}
    /\ shell.historyOffset # 0

\* the lines a scripted terminal has had accepted
TypedLines == {terminal.typed[i] : i \in 1..Len(terminal.typed)}

\* C21: in every reachable state 0 <= historyFlag < SHELL_HISTORY_MAX_NUMBER,
\* historyFlag <= historyCount <= SHELL_HISTORY_MAX_NUMBER and
\* -historyCount <= historyOffset <= 0; a recall with an offset other than 0
\* copies a slot that holds a line stored before, not empty, and never a slot
\* that was never written.
C21_HistoryCountersConsistent ==
    /\ 0 <= shell.historyFlag
    /\ shell.historyFlag < SHELL_HISTORY_MAX_NUMBER
    /\ shell.historyFlag <= shell.historyCount
    /\ shell.historyCount <= SHELL_HISTORY_MAX_NUMBER
    /\ -shell.historyCount <= shell.historyOffset
    /\ shell.historyOffset <= 0
    /\ RecalledSlot =>
        /\ InHistory(HistoryRecallIndex(shell))
        /\ shell.history[HistoryRecallIndex(shell)] # <<>>
        /\ Line(shell) = shell.history[HistoryRecallIndex(shell)]
        /\ terminal.typed # <<>> => Line(shell) \in TypedLines

\* C21 witness: after the ring has wrapped, Up arrows went back as far as
\* the floor and the oldest line kept is in the buffer
C21_Witness ==
    /\ RecalledSlot
    /\ lastKey.data = "A"
    /\ shell.historyCount = SHELL_HISTORY_MAX_NUMBER
    /\ shell.historyFlag # 0
    /\ shell.historyOffset = -SHELL_HISTORY_MAX_NUMBER
    /\ shell.length > 0

====
